---- MODULE Spec2Model ----
(***************************************************************************)
(* A model of the mcbmap scrapers: the three batched-upsert sinks          *)
(* (osm_scraper.insert_pois_to_supabase, popular_times_scraper             *)
(* .insert_records, gla_footfall_parser.insert_footfall_data), the tag     *)
(* classifier determine_type, the score normaliser normalize_to_100, the   *)
(* popularity estimator generate_estimated_popular_times and the record    *)
(* producers scrape_all_places and generate_sample_data.                   *)
(*                                                                         *)
(* The external store (Supabase/PostgREST) is a collaborator: a table is a *)
(* set of rows, and an upsert either raises (the chunk is lost) or applies *)
(* the batch row by row with last-write-wins on the on_conflict columns.   *)
(*                                                                         *)
(* Specifications:                                                         *)
(*   SinkSpec    the three sinks on arbitrary short arguments, any number  *)
(*               of runs against one store;                                *)
(*   ClassSpec   determine_type on arbitrary rows;                         *)
(*   NormSpec    normalize_to_100 on arbitrary short series;               *)
(*   EstSpec     two calls of generate_estimated_popular_times;            *)
(*   ScrapeSpec  the two footfall programs from record production to the   *)
(*               store.                                                    *)
(***************************************************************************)
EXTENDS Integers, Sequences, FiniteSets, TLC

VARIABLES
    pc,                 \* position of the running program
    sink,               \* which sink runs: "none", "poi", "pt", "gla"
    batch_size,         \* the sink's local batch_size
    records,            \* the sink's argument (pois / records)
    i,                  \* the loop variable of range(0, len(records), batch_size)
    inserted,           \* the sink's local `inserted`
    errors,             \* the POI sink's local `errors`
    business_nodes,     \* the store's table business_nodes (a set of rows)
    footfall_baseline,  \* the store's table footfall_baseline (a set of rows)
    calls,              \* history: the upsert calls of the current run, in order
    reported,           \* what the final print of the run reports
    lastSubmitted,      \* history: per natural key, the score of the last accepted record
    fn,                 \* the function a caller is in: "none" when it has returned
    row,                \* determine_type's argument: the tags of one feature
    classified,         \* what determine_type returned for row
    values,             \* normalize_to_100's argument
    normalized,         \* what normalize_to_100 returned for values
    estimates,          \* the calls of generate_estimated_popular_times: arguments and result
    targets,            \* scrape_all_places / generate_sample_data: the places still to process
    all_records,        \* scrape_all_places' local all_records
    program,            \* the script that is run: "none" when only functions are called
    SUPABASE_URL,       \* the module-level SUPABASE_URL of the script
    SUPABASE_KEY,       \* the module-level SUPABASE_KEY of the script
    client,             \* main's client: TRUE once get_supabase_client has returned
    exit_code,          \* the exit status of the process, None while it runs
    gdf,                \* fetch_all_pois: the feature frame the last fetch returned
    all_pois            \* osm_scraper.main's local all_pois

sinkVars == <<pc, sink, batch_size, records, i, inserted, errors, business_nodes,
              footfall_baseline, calls, reported, lastSubmitted>>

\* The sink's variables but pc.
sinkRest == <<sink, batch_size, records, i, inserted, errors, business_nodes,
              footfall_baseline, calls, reported, lastSubmitted>>

classVars == <<row, classified>>

normVars == <<values, normalized>>

scrapeVars == <<targets, all_records>>

mainVars == <<program, SUPABASE_URL, SUPABASE_KEY, client, exit_code, gdf, all_pois>>

\* What the sinks never touch.
besideSink == <<fn, classVars, normVars, estimates, scrapeVars, mainVars>>

vars == <<sinkVars, fn, classVars, normVars, estimates, scrapeVars, mainVars>>

(***************************************************************************)
(* Bounds of the model.                                                    *)
(***************************************************************************)
\* The chunk size SinkSpec runs the sinks with.  The source sets
\* batch_size = 100; the loop and the slicing do not depend on the value, so
\* SinkSpec runs them with a small chunk size over short arguments, which is
\* what makes several chunks per run enumerable.  ScrapeSpec runs the sinks
\* with the value of the source.
ScaledBatchSize == 2

\* The longest argument a sink is run on in SinkSpec.
MaxRecords == 5

\* The most tags of one feature that carry a string value.
MaxPresent == 3

\* The longest series normalize_to_100 is applied to, and the largest value
\* in it (the smallest is -2).
MaxLen == 3
MaxValue == 6

\* How many consecutive entries of TARGET_PLACES or LOCATION_COORDS one run of
\* ScrapeSpec processes.
MaxPlaces == 1

\* The rows of a fetched feature frame.
MaxRows == 2

(***************************************************************************)
(* Helpers on sequences and strings.                                       *)
(***************************************************************************)
RECURSIVE SeqsUpTo(_, _)
SeqsUpTo(S, n) ==
    IF n = 0 THEN {<<>>}
    ELSE LET shorter == SeqsUpTo(S, n - 1)
         IN  shorter \cup {Append(s, x) : s \in {t \in shorter : Len(t) = n - 1}, x \in S}

Min(a, b) == IF a < b THEN a ELSE b
Max(a, b) == IF a > b THEN a ELSE b

\* A slice taken from the key-bearing records of the sequence only.
SliceOfKeyed(s, lo, hi) ==
    LET keyed == SelectSeq(s, LAMBDA p : "osm_id" \in DOMAIN p =>
                                            (~p.osm_id.none /\ p.osm_id.v # 0))
    IN  SubSeq(keyed, lo + 1, IF hi < Len(keyed) THEN hi ELSE Len(keyed))

\* Python's seq[lo:hi] for 0 <= lo: the elements at 0-based positions lo..hi-1,
\* cut at the end of the sequence.
Slice(s, lo, hi) == SubSeq(s, lo + 1, Min(hi, Len(s)))

RECURSIVE SumLen(_)
SumLen(ss) == IF ss = <<>> THEN 0 ELSE Len(Head(ss)) + SumLen(Tail(ss))

RECURSIVE Flatten(_)
Flatten(ss) == IF ss = <<>> THEN <<>> ELSE Head(ss) \o Flatten(Tail(ss))

\* sub in s, for strings.
Contains(s, sub) ==
    \E k \in 1..(Len(s) - Len(sub) + 1) : SubSeq(s, k, k + Len(sub) - 1) = sub

UpperCase == "ABCDEFGHIJKLMNOPQRSTUVWXYZ"
LowerCase == "abcdefghijklmnopqrstuvwxyz"

\* str.lower() on the characters the place names are written in.
RECURSIVE Lower(_)
Lower(s) ==
    IF s = "" THEN ""
    ELSE LET c == SubSeq(s, 1, 1)
             up == {k \in 1..Len(UpperCase) : SubSeq(UpperCase, k, k) = c}
         IN  (IF up = {} THEN c
              ELSE LET k == CHOOSE k \in up : TRUE IN SubSeq(LowerCase, k, k))
             \o Lower(SubSeq(s, 2, Len(s)))

(***************************************************************************)
(* Records.                                                                *)
(***************************************************************************)
\* A Python value that is None or an int.
PyNone == [none |-> TRUE, v |-> 0]
PyInt(n) == [none |-> FALSE, v |-> n]

\* Python truthiness of such a value: None and 0 are falsy.
Truthy(x) == ~x.none /\ x.v # 0

\* The POI dicts the POI sink is run on in SinkSpec: no osm_id (None),
\* osm_id 0, and one feature (osm_id 7) under two classifications.
PoiRecords ==
    { [osm_id |-> PyNone,   type |-> "retail", subtype |-> "bakery"],
      [osm_id |-> PyInt(0), type |-> "retail", subtype |-> "bakery"],
      [osm_id |-> PyInt(7), type |-> "retail", subtype |-> "bakery"],
      [osm_id |-> PyInt(7), type |-> "other",  subtype |-> "unknown"] }

\* The footfall dict all three producers build; raw is score * 100.
FootfallRow(loc, point, day, hour, score, src) ==
    [location_name |-> loc, location_point |-> point, day_of_week |-> day,
     hour_of_day |-> hour, avg_footfall_score |-> score,
     raw_footfall_value |-> score * 100, source |-> src,
     source_date |-> "2024-01-01"]

\* f"POINT({lon} {lat})", the coordinates carried as their printed form.
Point(lon, lat) == "POINT(" \o lon \o " " \o lat \o ")"

\* The footfall dicts the Footfall sinks are run on in SinkSpec: one slot
\* under one source with two scores, and the same slot under another source.
FootfallRecords ==
    { FootfallRow("Whitehall", Point("-0.1266", "51.504"), "Monday", 8, 10, "SAMPLE_DATA"),
      FootfallRow("Whitehall", Point("-0.1266", "51.504"), "Monday", 8, 20, "SAMPLE_DATA"),
      FootfallRow("Whitehall", Point("-0.1266", "51.504"), "Monday", 8, 10,
                  "GOOGLE_POPULAR_TIMES_ESTIMATE") }

\* The natural key of a footfall record, as the specification names it.
NaturalKey(r) == <<r.location_name, r.day_of_week, r.hour_of_day, r.source>>

FootfallKeys == {NaturalKey(r) : r \in FootfallRecords}

(***************************************************************************)
(* The store collaborator.                                                 *)
(***************************************************************************)
\* The projection of a row on the on_conflict columns.
ConflictKey(r, cols) == [c \in cols |-> r[c]]

\* table.upsert(batch, on_conflict=cols).execute() when it does not raise:
\* the rows of the batch are applied in order, each replacing the rows that
\* agree with it on cols; so what stays is the rows of the table no row of the
\* batch conflicts with, and of the batch the last row under each key.
Upsert(table, batch, cols) ==
    LET keys == {ConflictKey(batch[k], cols) : k \in 1..Len(batch)}
        last == {k \in 1..Len(batch) :
                    \A n \in (k + 1)..Len(batch) :
                        ConflictKey(batch[n], cols) # ConflictKey(batch[k], cols)}
    IN  {x \in table : ConflictKey(x, cols) \notin keys} \cup {batch[k] : k \in last}

\* The history of accepted footfall records: the last score per natural key.
Remember(last, batch) ==
    LET keys == {NaturalKey(batch[k]) : k \in 1..Len(batch)}
        lastAt(key) == CHOOSE k \in 1..Len(batch) :
                           /\ NaturalKey(batch[k]) = key
                           /\ \A n \in (k + 1)..Len(batch) : NaturalKey(batch[n]) # key
    IN  [key \in DOMAIN last \cup keys |->
            IF key \in keys THEN batch[lastAt(key)].avg_footfall_score ELSE last[key]]

(***************************************************************************)
(* The loop the three sinks share: for i in range(0, len(records),         *)
(* batch_size), with the upsert inside try/except.                         *)
(***************************************************************************)
\* batch_size = 100
SourceBatchSize == 100

\* A sink that gives up at the first chunk the store refuses.
AbortOnError(idx, ok) == IF ok THEN idx + batch_size ELSE Len(records)

\* A sink that submits a refused chunk again.
RetryOnError(idx, ok) == IF ok THEN idx + batch_size ELSE idx

\* The value of i for the next iteration.  The except branch only prints (and,
\* in the POI sink, counts), so the for loop goes on with the next chunk
\* whether the upsert raised or not.
ContinueAt(idx, ok) == idx + batch_size

(***************************************************************************)
(* osm_scraper.insert_pois_to_supabase                                     *)
(***************************************************************************)
\* on_conflict='osm_id'
PoiConflictColumns == {"osm_id"}

\* A sink that hands the slice to the store as it is.
Unfiltered(batch) == batch

\* valid_batch = [p for p in batch if p.get('osm_id')]
ValidBatch(batch) == SelectSeq(batch, LAMBDA p : Truthy(p.osm_id))

\* errors += len(batch) in the except branch
PoiErrorIncrement(batch) == Len(batch)

\* The call insert_pois_to_supabase(client, pois), up to the for loop.
insert_pois_to_supabase_begin(pois, size) ==
    /\ records' = pois
    /\ sink' = "poi"
    /\ batch_size' = size
    /\ i' = 0
    /\ inserted' = 0
    /\ errors' = 0
    /\ calls' = <<>>
    /\ reported' = <<>>
    \* if not pois: print("No POIs to insert."); return
    /\ pc' = IF pois = <<>> THEN "done" ELSE "loop"
    /\ UNCHANGED <<business_nodes, footfall_baseline, lastSubmitted, besideSink>>

insert_pois_to_supabase_batch ==
    /\ pc = "loop" /\ sink = "poi" /\ i < Len(records)
    /\ LET batch == Slice(records, i, i + batch_size)
           valid_batch == ValidBatch(batch)
       IN  IF valid_batch # <<>>
           THEN \E ok \in BOOLEAN :
                   /\ calls' = Append(calls, [start |-> i, batch |-> valid_batch, ok |-> ok])
                   /\ IF ok
                      THEN /\ business_nodes' = Upsert(business_nodes, valid_batch, PoiConflictColumns)
                           /\ inserted' = inserted + Len(valid_batch)
                           /\ UNCHANGED errors
                      ELSE /\ errors' = errors + PoiErrorIncrement(batch)
                           /\ UNCHANGED <<business_nodes, inserted>>
                   /\ i' = ContinueAt(i, ok)
           ELSE /\ i' = ContinueAt(i, TRUE)
                /\ UNCHANGED <<calls, business_nodes, inserted, errors>>
    /\ UNCHANGED <<pc, sink, batch_size, records, footfall_baseline, reported,
                   lastSubmitted, besideSink>>

insert_pois_to_supabase_report ==
    /\ pc = "loop" /\ sink = "poi" /\ i >= Len(records)
    \* print(f"  Inserted/updated: {inserted}, Errors: {errors}")
    /\ reported' = [inserted |-> inserted, errors |-> errors]
    /\ pc' = "done"
    /\ UNCHANGED <<sink, batch_size, records, i, inserted, errors, business_nodes,
                   footfall_baseline, calls, lastSubmitted, besideSink>>

(***************************************************************************)
(* popular_times_scraper.insert_records and                                *)
(* gla_footfall_parser.insert_footfall_data                                *)
(***************************************************************************)
\* A conflict target that leaves the provenance out.
ConflictColumnsWithoutSource == {"location_name", "day_of_week", "hour_of_day"}

\* on_conflict='location_name,day_of_week,hour_of_day,source'
FootfallConflictColumns == {"location_name", "day_of_week", "hour_of_day", "source"}

\* One iteration of the for loop of either Footfall sink.
FootfallBatch(name) ==
    /\ pc = "loop" /\ sink = name /\ i < Len(records)
    /\ LET batch == Slice(records, i, i + batch_size)
       IN  \E ok \in BOOLEAN :
              /\ calls' = Append(calls, [start |-> i, batch |-> batch, ok |-> ok])
              /\ IF ok
                 THEN /\ footfall_baseline' = Upsert(footfall_baseline, batch, FootfallConflictColumns)
                      /\ lastSubmitted' = Remember(lastSubmitted, batch)
                      /\ inserted' = inserted + Len(batch)
                 ELSE UNCHANGED <<footfall_baseline, lastSubmitted, inserted>>
              /\ i' = ContinueAt(i, ok)
    /\ UNCHANGED <<pc, sink, batch_size, records, errors, business_nodes, reported,
                   besideSink>>

\* print(f"  Inserted/updated: {inserted} records")
FootfallReport(name) ==
    /\ pc = "loop" /\ sink = name /\ i >= Len(records)
    /\ reported' = [inserted |-> inserted]
    /\ pc' = "done"
    /\ UNCHANGED <<sink, batch_size, records, i, inserted, errors, business_nodes,
                   footfall_baseline, calls, lastSubmitted, besideSink>>

\* The locals of a Footfall sink when its for loop starts.
FootfallLocals(name, recs, size) ==
    /\ records' = recs
    /\ sink' = name
    /\ batch_size' = size
    /\ i' = 0
    /\ inserted' = 0
    /\ errors' = 0
    /\ calls' = <<>>
    /\ reported' = <<>>

\* The call insert_records(client, records), up to the for loop.
insert_records_begin(recs, size) ==
    /\ FootfallLocals("pt", recs, size)
    /\ pc' = "loop"
    /\ UNCHANGED <<business_nodes, footfall_baseline, lastSubmitted, besideSink>>

insert_records_batch == FootfallBatch("pt")

insert_records_report == FootfallReport("pt")

\* The call insert_footfall_data(client, records), up to the for loop.
insert_footfall_data_begin(recs, size) ==
    /\ FootfallLocals("gla", recs, size)
    \* if not records: print("No records to insert."); return
    /\ pc' = IF recs = <<>> THEN "done" ELSE "loop"
    /\ UNCHANGED <<business_nodes, footfall_baseline, lastSubmitted, besideSink>>

insert_footfall_data_batch == FootfallBatch("gla")

insert_footfall_data_report == FootfallReport("gla")

(***************************************************************************)
(* main() returns after its sink: the run's locals are gone, the store     *)
(* keeps its tables, and a later run of any of the three programs starts   *)
(* from there.                                                             *)
(***************************************************************************)
main_exit ==
    /\ pc = "done"
    /\ pc' = "idle"
    /\ sink' = "none"
    /\ batch_size' = SourceBatchSize
    /\ records' = <<>>
    /\ i' = 0
    /\ inserted' = 0
    /\ errors' = 0
    /\ calls' = <<>>
    /\ reported' = <<>>
    /\ UNCHANGED <<business_nodes, footfall_baseline, lastSubmitted, besideSink>>

\* No program is running and the store is empty.
SinkIdle ==
    /\ pc = "idle"
    /\ sink = "none"
    /\ batch_size = SourceBatchSize
    /\ records = <<>>
    /\ i = 0
    /\ inserted = 0
    /\ errors = 0
    /\ business_nodes = {}
    /\ footfall_baseline = {}
    /\ calls = <<>>
    /\ reported = <<>>
    /\ lastSubmitted = <<>>

(***************************************************************************)
(* osm_scraper.determine_type                                              *)
(***************************************************************************)
\* The tag columns the scraper asks for (TAGS).
TagKeys == {"shop", "amenity", "office", "leisure", "tourism", "craft", "historic"}

BLACKLIST ==
    {"bench", "waste_basket", "bicycle_parking", "telephone",
     "post_box", "recycling", "drinking_water", "toilets",
     "vending_machine", "atm", "parking", "parking_space",
     "motorcycle_parking", "loading_dock", "grit_bin",
     "hunting_stand", "feeding_place", "watering_place"}

HospitalityAmenities ==
    {"restaurant", "cafe", "bar", "pub", "fast_food", "food_court", "biergarten", "nightclub"}

CommercialAmenities ==
    {"bank", "bureau_de_change", "post_office", "clinic", "dentist",
     "pharmacy", "doctors", "hospital", "veterinary"}

LodgingTourism == {"hotel", "hostel", "guest_house", "motel", "apartment"}

FitnessLeisure == {"fitness_centre", "gym", "sports_centre"}

\* A cell of the feature frame: a string, or NaN where the feature has no such tag.
Str(v) == [str |-> TRUE, s |-> v]
NaN == [str |-> FALSE, s |-> ""]

\* The tag values a feature is given: one of each set determine_type tests
\* for, and one that is in none of them.
TagValues == {"bench", "cafe", "bank", "hotel", "gym", "bakery"}

\* 'key' in row.index and isinstance(row['key'], str)
IsStr(r, key) == key \in DOMAIN r /\ r[key].str

\* (poi_type, subtype); (None, None) is the pair with none set.
Classified(t, st) == [none |-> FALSE, type |-> t, subtype |-> st]
Discard == [none |-> TRUE, type |-> "", subtype |-> ""]

\* An amenity branch that has lost its blacklist test.
AmenityBranchWithoutBlacklist(subtype) ==
    IF subtype \in HospitalityAmenities THEN Classified("hospitality", subtype)
    ELSE IF subtype \in CommercialAmenities THEN Classified("commercial", subtype)
    ELSE Classified("other", "amenity:" \o subtype)

\* The body of `if 'amenity' in row.index and isinstance(row['amenity'], str)`.
AmenityBranch(subtype) ==
    IF subtype \in BLACKLIST THEN Discard
    ELSE IF subtype \in HospitalityAmenities THEN Classified("hospitality", subtype)
    ELSE IF subtype \in CommercialAmenities THEN Classified("commercial", subtype)
    ELSE Classified("other", "amenity:" \o subtype)

\* The body of the tourism test.
TourismBranch(subtype) ==
    IF subtype \in LodgingTourism THEN Classified("hospitality", subtype)
    ELSE Classified("other", "tourism:" \o subtype)

\* The body of the leisure test.
LeisureBranch(subtype) ==
    IF subtype \in BLACKLIST THEN Discard
    ELSE IF subtype \in FitnessLeisure THEN Classified("commercial", subtype)
    ELSE Classified("other", "leisure:" \o subtype)

\* A classifier that looks at amenity before shop and office.
determine_type_amenity_first(r) ==
    IF IsStr(r, "amenity") THEN AmenityBranch(r["amenity"].s)
    ELSE IF IsStr(r, "shop") THEN Classified("retail", r["shop"].s)
    ELSE IF IsStr(r, "office") THEN Classified("commercial", r["office"].s)
    ELSE IF IsStr(r, "tourism") THEN TourismBranch(r["tourism"].s)
    ELSE IF IsStr(r, "historic") THEN Classified("other", "historic:" \o r["historic"].s)
    ELSE IF IsStr(r, "leisure") THEN LeisureBranch(r["leisure"].s)
    ELSE IF IsStr(r, "craft") THEN Classified("commercial", "craft:" \o r["craft"].s)
    ELSE Classified("other", "unknown")

determine_type(r) ==
    IF IsStr(r, "shop") THEN Classified("retail", r["shop"].s)
    ELSE IF IsStr(r, "office") THEN Classified("commercial", r["office"].s)
    ELSE IF IsStr(r, "amenity") THEN AmenityBranch(r["amenity"].s)
    ELSE IF IsStr(r, "tourism") THEN TourismBranch(r["tourism"].s)
    ELSE IF IsStr(r, "historic") THEN Classified("other", "historic:" \o r["historic"].s)
    ELSE IF IsStr(r, "leisure") THEN LeisureBranch(r["leisure"].s)
    ELSE IF IsStr(r, "craft") THEN Classified("commercial", "craft:" \o r["craft"].s)
    ELSE Classified("other", "unknown")

\* The caller at rest: no function entered, no argument, no result.
PureIdle ==
    /\ fn = "none"
    /\ row = <<>>
    /\ classified = Discard
    /\ values = <<>>
    /\ normalized = <<>>
    /\ estimates = <<>>

\* poi_type, subtype = determine_type(row), for a row of the feature frame:
\* up to MaxPresent tags carry a string, any of the other columns is NaN, and
\* the rest are not columns of the frame.
determine_type_call ==
    /\ fn = "none"
    /\ fn' = "determine_type"
    /\ \E present \in SUBSET TagKeys :
          /\ Cardinality(present) <= MaxPresent
          /\ \E nans \in SUBSET (TagKeys \ present) :
                \E vals \in [present -> TagValues] :
                    LET r == [k \in present \cup nans |->
                                 IF k \in present THEN Str(vals[k]) ELSE NaN]
                    IN  /\ row' = r
                        /\ classified' = determine_type(r)
    /\ UNCHANGED <<sinkVars, normVars, estimates, scrapeVars, mainVars>>

\* The caller is done with the pair and goes on to the next row.
determine_type_return ==
    /\ fn = "determine_type"
    /\ fn' = "none"
    /\ row' = <<>>
    /\ classified' = Discard
    /\ UNCHANGED <<sinkVars, normVars, estimates, scrapeVars, mainVars>>

(***************************************************************************)
(* gla_footfall_parser.normalize_to_100                                    *)
(***************************************************************************)
\* values.min() and values.max() of a non-empty series.
SeriesMin(vals) == CHOOSE x \in {vals[k] : k \in 1..Len(vals)} :
                       \A k \in 1..Len(vals) : x <= vals[k]
SeriesMax(vals) == CHOOSE x \in {vals[k] : k \in 1..Len(vals)} :
                       \A k \in 1..Len(vals) : x >= vals[k]

\* Series.round() of the quotient n / d, d > 0: to the nearest integer, a tie
\* to the even one (numpy's rint).  On the series of the model the float
\* quotient (v - min) / (max - min) * 100 rounds as the exact one does.
RoundHalfEven(n, d) ==
    LET q == n \div d
        r == n % d
    IN  IF 2 * r < d THEN q
        ELSE IF 2 * r > d THEN q + 1
        ELSE IF q % 2 = 0 THEN q ELSE q + 1

\* A normaliser that scales without subtracting the minimum.
normalize_without_offset(vals) ==
    IF vals = <<>> THEN <<>>
    ELSE LET min_val == SeriesMin(vals)
             max_val == SeriesMax(vals)
         IN  IF max_val = min_val THEN [k \in 1..Len(vals) |-> 50]
             ELSE [k \in 1..Len(vals) |-> RoundHalfEven(vals[k] * 100, max_val - min_val)]

\* An empty series has min and max NaN, which are not equal, and the
\* arithmetic on it gives the empty series.
normalize_to_100(vals) ==
    IF vals = <<>> THEN <<>>
    ELSE LET min_val == SeriesMin(vals)
             max_val == SeriesMax(vals)
         IN  IF max_val = min_val THEN [k \in 1..Len(vals) |-> 50]
             ELSE [k \in 1..Len(vals) |->
                      RoundHalfEven((vals[k] - min_val) * 100, max_val - min_val)]

normalize_to_100_call ==
    /\ fn = "none"
    /\ fn' = "normalize_to_100"
    /\ \E vals \in SeqsUpTo((-2)..MaxValue, MaxLen) :
          /\ values' = vals
          /\ normalized' = normalize_to_100(vals)
    /\ UNCHANGED <<sinkVars, classVars, estimates, scrapeVars, mainVars>>

normalize_to_100_return ==
    /\ fn = "normalize_to_100"
    /\ fn' = "none"
    /\ values' = <<>>
    /\ normalized' = <<>>
    /\ UNCHANGED <<sinkVars, classVars, estimates, scrapeVars, mainVars>>

(***************************************************************************)
(* popular_times_scraper.generate_estimated_popular_times                  *)
(***************************************************************************)
TARGET_PLACES ==
    <<
       [name |-> "Hyde Park Corner", lat |-> "51.5027", lng |-> "-0.1527"],
       [name |-> "Marble Arch", lat |-> "51.5134", lng |-> "-0.1591"],
       [name |-> "Speakers Corner", lat |-> "51.5114", lng |-> "-0.1593"],
       [name |-> "Trafalgar Square", lat |-> "51.508", lng |-> "-0.1281"],
       [name |-> "Charing Cross Station", lat |-> "51.5074", lng |-> "-0.1246"],
       [name |-> "Embankment Station", lat |-> "51.5074", lng |-> "-0.1224"],
       [name |-> "Whitehall", lat |-> "51.504", lng |-> "-0.1266"],
       [name |-> "Downing Street", lat |-> "51.5033", lng |-> "-0.1276"],
       [name |-> "Parliament Square", lat |-> "51.501", lng |-> "-0.1268"],
       [name |-> "Westminster Abbey", lat |-> "51.4992", lng |-> "-0.1273"],
       [name |-> "Big Ben", lat |-> "51.5007", lng |-> "-0.1246"],
       [name |-> "Victoria Station", lat |-> "51.4952", lng |-> "-0.1439"],
       [name |-> "Victoria Street", lat |-> "51.4978", lng |-> "-0.14"],
       [name |-> "Oxford Circus", lat |-> "51.5152", lng |-> "-0.1416"],
       [name |-> "Piccadilly Circus", lat |-> "51.51", lng |-> "-0.1347"],
       [name |-> "Leicester Square", lat |-> "51.5102", lng |-> "-0.1308"],
       [name |-> "Covent Garden", lat |-> "51.5117", lng |-> "-0.124"],
       [name |-> "Holborn Station", lat |-> "51.5175", lng |-> "-0.12"],
       [name |-> "Chancery Lane", lat |-> "51.5183", lng |-> "-0.1112"],
       [name |-> "Fleet Street", lat |-> "51.514", lng |-> "-0.1078"],
       [name |-> "St Paul's Cathedral", lat |-> "51.5138", lng |-> "-0.0984"],
       [name |-> "Waterloo Station", lat |-> "51.5031", lng |-> "-0.1132"],
       [name |-> "South Bank Centre", lat |-> "51.5068", lng |-> "-0.1163"],
       [name |-> "London Eye", lat |-> "51.5033", lng |-> "-0.1196"],
       [name |-> "Westminster Bridge", lat |-> "51.5009", lng |-> "-0.122"],
       [name |-> "Lambeth Bridge", lat |-> "51.4948", lng |-> "-0.123"],
       [name |-> "Vauxhall Bridge", lat |-> "51.4866", lng |-> "-0.1264"],
       [name |-> "Euston Station", lat |-> "51.5282", lng |-> "-0.1337"],
       [name |-> "Kings Cross", lat |-> "51.5309", lng |-> "-0.1233"],
       [name |-> "Russell Square", lat |-> "51.5227", lng |-> "-0.1252"],
       [name |-> "Bloomsbury", lat |-> "51.5198", lng |-> "-0.127"]
    >>

DAYS == <<"Monday", "Tuesday", "Wednesday", "Thursday", "Friday", "Saturday", "Sunday">>

\* int(base * m) for the float literal m = pct / 100 and 0 <= base <= 200:
\* the exact product cut to an integer, but for the products the binary
\* floats put just below the integer (90 * 0.7 is 62.99999999999999).
MulTrunc(base, pct) ==
    IF (pct = 70 /\ base \in {90, 170, 180}) \/ (pct = 35 /\ base = 180)
    THEN (base * pct) \div 100 - 1
    ELSE (base * pct) \div 100

\* The base pattern of the hour.
BaseCurve(hour) ==
    IF 0 <= hour /\ hour < 6 THEN 5 + hour
    ELSE IF 6 <= hour /\ hour < 9 THEN 20 + (hour - 6) * 15
    ELSE IF 9 <= hour /\ hour < 12 THEN 60 + (hour - 9) * 10
    ELSE IF 12 <= hour /\ hour < 14 THEN 85
    ELSE IF 14 <= hour /\ hour < 17 THEN 75 - (hour - 14) * 5
    ELSE IF 17 <= hour /\ hour < 20 THEN 65 + (hour - 17) * 5
    ELSE IF 20 <= hour /\ hour < 23 THEN 60 - (hour - 20) * 15
    ELSE 15

\* An estimator that scales the raw base for the weekend before the archetype
\* adjustments instead of after them.
EstimatedScoreWeekendFirst(is_station, is_shopping, is_landmark, is_transit, day, hour) ==
    LET is_weekend == day \in {"Saturday", "Sunday"}
        base0 == IF is_weekend
                 THEN IF day = "Saturday" THEN MulTrunc(BaseCurve(hour), 110)
                      ELSE MulTrunc(BaseCurve(hour), 85)
                 ELSE BaseCurve(hour)
        base1 == IF is_station
                 THEN IF ~is_weekend /\ ((7 <= hour /\ hour <= 9) \/ (17 <= hour /\ hour <= 19))
                      THEN Min(100, base0 + 25)
                      ELSE IF is_weekend THEN MulTrunc(base0, 70) ELSE base0
                 ELSE base0
        base2 == IF is_shopping /\ is_weekend /\ 10 <= hour /\ hour <= 18
                 THEN Min(100, base1 + 20)
                 ELSE base1
        base3 == IF is_landmark /\ 10 <= hour /\ hour <= 17
                 THEN Max(base2, 50)
                 ELSE base2
        base4 == IF is_transit /\ ~is_weekend
                    /\ ((8 <= hour /\ hour <= 9) \/ (17 <= hour /\ hour <= 18))
                 THEN Min(100, base3 + 15)
                 ELSE base3
    IN  Max(0, Min(100, base4))

\* The body of the two nested loops: the score of one day and hour.
EstimatedScore(is_station, is_shopping, is_landmark, is_transit, day, hour) ==
    LET is_weekend == day \in {"Saturday", "Sunday"}
        base0 == BaseCurve(hour)
        base1 == IF is_station
                 THEN IF ~is_weekend /\ ((7 <= hour /\ hour <= 9) \/ (17 <= hour /\ hour <= 19))
                      THEN Min(100, base0 + 25)
                      ELSE IF is_weekend THEN MulTrunc(base0, 70) ELSE base0
                 ELSE base0
        base2 == IF is_shopping /\ is_weekend /\ 10 <= hour /\ hour <= 18
                 THEN Min(100, base1 + 20)
                 ELSE base1
        base3 == IF is_landmark /\ 10 <= hour /\ hour <= 17
                 THEN Max(base2, 50)
                 ELSE base2
        base4 == IF is_transit /\ ~is_weekend
                    /\ ((8 <= hour /\ hour <= 9) \/ (17 <= hour /\ hour <= 18))
                 THEN Min(100, base3 + 15)
                 ELSE base3
        base5 == IF is_weekend
                 THEN IF day = "Saturday" THEN MulTrunc(base4, 110) ELSE MulTrunc(base4, 85)
                 ELSE base4
    IN  Max(0, Min(100, base5))

\* An estimator on a 12-hour clock: the hours 0..11 twice a day.
EstimatedRecordsTwelveHour(place_name, lat, lng, is_station, is_shopping, is_landmark, is_transit) ==
    [n \in 1..(Len(DAYS) * 24) |->
        LET day == DAYS[(n - 1) \div 24 + 1]
            hour == (n - 1) % 12
        IN  FootfallRow(place_name, Point(lng, lat), day, hour,
                        EstimatedScore(is_station, is_shopping, is_landmark, is_transit, day, hour),
                        "GOOGLE_POPULAR_TIMES_ESTIMATE")]

\* records, in the order of the loops: day by day, hour by hour.
EstimatedRecords(place_name, lat, lng, is_station, is_shopping, is_landmark, is_transit) ==
    [n \in 1..(Len(DAYS) * 24) |->
        LET day == DAYS[(n - 1) \div 24 + 1]
            hour == (n - 1) % 24
        IN  FootfallRow(place_name, Point(lng, lat), day, hour,
                        EstimatedScore(is_station, is_shopping, is_landmark, is_transit, day, hour),
                        "GOOGLE_POPULAR_TIMES_ESTIMATE")]

\* An estimator that takes the archetype from the position.
generate_estimated_by_position(place_name, lat, lng) ==
    LET south == lat = "51.4952"
    IN  EstimatedRecords(place_name, lat, lng, south, FALSE, FALSE, south)

generate_estimated_popular_times(place_name, lat, lng) ==
    LET lower == Lower(place_name)
        is_station == Contains(lower, "station")
        is_shopping == \E x \in {"circus", "square", "street", "garden"} : Contains(lower, x)
        is_landmark == \E x \in {"cathedral", "abbey", "eye", "bridge", "ben"} : Contains(lower, x)
        is_transit == is_station \/ Contains(lower, "bridge")
    IN  EstimatedRecords(place_name, lat, lng, is_station, is_shopping, is_landmark, is_transit)

\* The names the estimator is called with: those of TARGET_PLACES, and names
\* that combine the archetypes in the ways the table does not.
EstimatorNames ==
    {TARGET_PLACES[k].name : k \in 1..Len(TARGET_PLACES)}
        \cup {"Bridge Station", "Abbey Street", "Abbey Street Station",
              "Tower Bridge Square", "BRIDGE STREET STATION",
              "Liverpool Street Station"}

\* The coordinates it is called with, as (lat, lng).
EstimatorCoordinates == {<<"51.5027", "-0.1527">>, <<"51.4952", "-0.1439">>}

\* A caller calls the estimator, and then calls it again.
generate_estimated_popular_times_call ==
    /\ fn \in {"none", "generate_estimated_popular_times"}
    /\ Len(estimates) < 2
    /\ fn' = "generate_estimated_popular_times"
    /\ \E name \in EstimatorNames, c \in EstimatorCoordinates :
          estimates' = Append(estimates,
                              [place_name |-> name, lat |-> c[1], lng |-> c[2],
                               out |-> generate_estimated_popular_times(name, c[1], c[2])])
    /\ UNCHANGED <<sinkVars, classVars, normVars, scrapeVars, mainVars>>

generate_estimated_popular_times_return ==
    /\ fn = "generate_estimated_popular_times"
    /\ Len(estimates) = 2
    /\ fn' = "none"
    /\ estimates' = <<>>
    /\ UNCHANGED <<sinkVars, classVars, normVars, scrapeVars, mainVars>>

(***************************************************************************)
(* popular_times_scraper.scrape_all_places and main                        *)
(***************************************************************************)
\* What fetch_popular_times hands back for a place: None (here <<>>) when the
\* package or the key is missing, the call raised or no place had a series,
\* and otherwise the series the service returned, a list of dicts with an
\* optional 'day' and a 'data' list.  The service decides the values.
PopularTimesResults ==
    {<<>>} \cup
    { <<[day |-> d, data |-> [k \in 1..len |-> p]]>> :
        d \in {PyNone, PyInt(6), PyInt(7)}, len \in {24, 25}, p \in {100, 150} }

\* DAYS[day_idx] raises IndexError outside -7..6.
DayIndexInRange(day_idx) == -Len(DAYS) <= day_idx /\ day_idx < Len(DAYS)

\* DAYS[day_idx] for an index in range, negative ones counting from the end.
DayName(day_idx) == IF day_idx >= 0 THEN DAYS[day_idx + 1] ELSE DAYS[Len(DAYS) + day_idx + 1]

\* day_data.get('day', 0)
DayIndex(day_data) == IF day_data.day.none THEN 0 ELSE day_data.day.v

\* The records the inner loops append for one place's series.
RECURSIVE ParsedRecords(_, _)
ParsedRecords(place, popular_times) ==
    IF popular_times = <<>> THEN <<>>
    ELSE LET day_data == Head(popular_times)
             day_name == DayName(DayIndex(day_data))
         IN  [n \in 1..Len(day_data.data) |->
                 \* hour, popularity in enumerate(day_data.get('data', []))
                 FootfallRow(place.name, Point(place.lng, place.lat), day_name,
                             n - 1, day_data.data[n], "GOOGLE_POPULAR_TIMES")]
             \o ParsedRecords(place, Tail(popular_times))

\* main() up to the first place: the places this run goes through.
scrape_all_places_begin ==
    /\ pc = "idle"
    /\ \E first \in 1..Len(TARGET_PLACES) :
          targets' = SubSeq(TARGET_PLACES, first, Min(first + MaxPlaces - 1, Len(TARGET_PLACES)))
    /\ all_records' = <<>>
    /\ pc' = "scrape"
    /\ UNCHANGED <<sinkRest, fn, classVars, normVars, estimates, mainVars>>

\* One iteration of `for i, place in enumerate(TARGET_PLACES)`.
scrape_all_places_place ==
    /\ pc = "scrape" /\ targets # <<>>
    /\ LET place == Head(targets)
       IN  \E popular_times \in PopularTimesResults :
              IF popular_times # <<>>
              THEN IF \A n \in 1..Len(popular_times) :
                          DayIndexInRange(DayIndex(popular_times[n]))
                   THEN /\ all_records' = all_records \o ParsedRecords(place, popular_times)
                        /\ targets' = Tail(targets)
                        /\ pc' = "scrape"
                   ELSE \* IndexError, caught nowhere: the program dies
                        /\ pc' = "crashed"
                        /\ UNCHANGED <<targets, all_records>>
              ELSE /\ all_records' = all_records \o
                          generate_estimated_popular_times(place.name, place.lat, place.lng)
                   /\ targets' = Tail(targets)
                   /\ pc' = "scrape"
    /\ UNCHANGED <<sinkRest, fn, classVars, normVars, estimates, mainVars>>

\* records = scrape_all_places(); insert_records(client, records)
scrape_all_places_insert ==
    /\ pc = "scrape" /\ targets = <<>>
    /\ insert_records_begin(all_records, SourceBatchSize)

(***************************************************************************)
(* gla_footfall_parser.generate_sample_data and main                       *)
(***************************************************************************)
LOCATION_COORDS ==
    <<
       [name |-> "Oxford Street", lon |-> "-0.141", lat |-> "51.5153"],
       [name |-> "Regent Street", lon |-> "-0.1376", lat |-> "51.5114"],
       [name |-> "Bond Street", lon |-> "-0.1485", lat |-> "51.5133"],
       [name |-> "Covent Garden", lon |-> "-0.1235", lat |-> "51.5116"],
       [name |-> "Leicester Square", lon |-> "-0.1281", lat |-> "51.5103"],
       [name |-> "Piccadilly", lon |-> "-0.1378", lat |-> "51.5078"],
       [name |-> "Soho", lon |-> "-0.1337", lat |-> "51.5137"],
       [name |-> "Carnaby Street", lon |-> "-0.1383", lat |-> "51.5129"],
       [name |-> "Marylebone High Street", lon |-> "-0.1529", lat |-> "51.5199"],
       [name |-> "Victoria", lon |-> "-0.1432", lat |-> "51.4967"],
       [name |-> "Westminster", lon |-> "-0.1276", lat |-> "51.5014"],
       [name |-> "Whitehall", lon |-> "-0.1266", lat |-> "51.504"],
       [name |-> "Trafalgar Square", lon |-> "-0.1276", lat |-> "51.508"],
       [name |-> "The Strand", lon |-> "-0.119", lat |-> "51.5108"],
       [name |-> "Charing Cross", lon |-> "-0.1246", lat |-> "51.5074"],
       [name |-> "Tottenham Court Road", lon |-> "-0.1306", lat |-> "51.5165"],
       [name |-> "Kings Cross", lon |-> "-0.1246", lat |-> "51.5309"],
       [name |-> "Camden", lon |-> "-0.1426", lat |-> "51.539"],
       [name |-> "Shoreditch", lon |-> "-0.0763", lat |-> "51.5236"],
       [name |-> "Brick Lane", lon |-> "-0.0715", lat |-> "51.5215"],
       [name |-> "Liverpool Street", lon |-> "-0.0823", lat |-> "51.5178"],
       [name |-> "Bank", lon |-> "-0.0887", lat |-> "51.5133"],
       [name |-> "South Bank", lon |-> "-0.1157", lat |-> "51.5047"],
       [name |-> "Borough Market", lon |-> "-0.0906", lat |-> "51.5054"],
       [name |-> "London Bridge", lon |-> "-0.0862", lat |-> "51.5055"],
       [name |-> "Tower Bridge", lon |-> "-0.0754", lat |-> "51.5055"],
       [name |-> "Canary Wharf", lon |-> "-0.0197", lat |-> "51.5054"],
       [name |-> "Greenwich", lon |-> "-0.0076", lat |-> "51.4769"],
       [name |-> "Kensington High Street", lon |-> "-0.191", lat |-> "51.5003"],
       [name |-> "Chelsea", lon |-> "-0.1687", lat |-> "51.4875"],
       [name |-> "Knightsbridge", lon |-> "-0.1609", lat |-> "51.5013"],
       [name |-> "Notting Hill", lon |-> "-0.2019", lat |-> "51.5111"],
       [name |-> "Portobello Road", lon |-> "-0.2046", lat |-> "51.5153"]
    >>

weekday_pattern ==
    <<5, 3, 2, 2, 3, 10, 25, 50, 65, 60, 65, 75, 85, 80, 75, 70, 75, 85, 70, 50, 35, 25, 15, 8>>
saturday_pattern ==
    <<8, 5, 3, 3, 5, 8, 15, 30, 50, 70, 85, 95, 100, 95, 90, 85, 80, 70, 55, 40, 30, 25, 18, 12>>
sunday_pattern ==
    <<5, 3, 2, 2, 3, 5, 10, 20, 35, 50, 65, 80, 85, 80, 70, 60, 50, 40, 30, 25, 18, 12, 8, 5>>

\* location_multipliers.get(location, 0.5), in hundredths.
LocationMultiplier(location) ==
    CASE location = "Oxford Street"    -> 100
      [] location = "Regent Street"    -> 90
      [] location = "Covent Garden"    -> 85
      [] location = "Leicester Square" -> 80
      [] location = "Piccadilly"       -> 75
      [] location = "Trafalgar Square" -> 70
      [] location = "South Bank"       -> 65
      [] location = "Borough Market"   -> 60
      [] location = "Camden"           -> 70
      [] location = "Shoreditch"       -> 55
      [] location = "Notting Hill"     -> 50
      [] location = "Westminster"      -> 45
      [] location = "Whitehall"        -> 35
      [] OTHER                         -> 50

\* The 7 x 24 records of one location.
SampleRecordsOf(loc) ==
    [n \in 1..(Len(DAYS) * 24) |->
        LET day == DAYS[(n - 1) \div 24 + 1]
            hour == (n - 1) % 24
            pattern == IF day = "Saturday" THEN saturday_pattern
                       ELSE IF day = "Sunday" THEN sunday_pattern
                       ELSE weekday_pattern
            \* score = int(min(100, max(0, base_score * multiplier)))
            score == Min(100, Max(0, MulTrunc(pattern[hour + 1], LocationMultiplier(loc.name))))
        IN  FootfallRow(loc.name, Point(loc.lon, loc.lat), day, hour, score, "SAMPLE_DATA")]

\* generate_sample_data() over the locations locs of LOCATION_COORDS.
RECURSIVE generate_sample_data(_)
generate_sample_data(locs) ==
    IF locs = <<>> THEN <<>>
    ELSE SampleRecordsOf(Head(locs)) \o generate_sample_data(Tail(locs))

\* records = generate_sample_data(); insert_footfall_data(client, records)
generate_sample_data_insert ==
    /\ pc = "idle"
    /\ \E first \in 1..Len(LOCATION_COORDS) :
          LET locs == SubSeq(LOCATION_COORDS, first,
                             Min(first + MaxPlaces - 1, Len(LOCATION_COORDS)))
          IN  insert_footfall_data_begin(generate_sample_data(locs), SourceBatchSize)

(***************************************************************************)
(* The three scripts: module-level configuration, get_supabase_client and  *)
(* main.                                                                   *)
(***************************************************************************)
Programs == {"osm_scraper", "popular_times_scraper", "gla_footfall_parser"}

\* os.getenv(name): None when the variable is unset, else its string.
Unset == [none |-> TRUE, s |-> ""]
EnvStr(v) == [none |-> FALSE, s |-> v]

\* The truth value of such a value: None and '' are falsy.
StrTruthy(x) == ~x.none /\ x.s # ""

\* a or b
Or(a, b) == IF StrTruthy(a) THEN a ELSE b

EnvNames == {"SUPABASE_URL", "VITE_SUPABASE_URL", "SUPABASE_SERVICE_ROLE_KEY",
             "SUPABASE_SERVICE_KEY", "VITE_SUPABASE_ANON_KEY"}

\* The environments a script is started in (after load_dotenv).
Environments == [EnvNames -> {Unset, EnvStr(""), EnvStr("secret")}]

\* SUPABASE_URL = os.getenv('SUPABASE_URL') or os.getenv('VITE_SUPABASE_URL')
ConfiguredUrl(environ) == Or(environ["SUPABASE_URL"], environ["VITE_SUPABASE_URL"])

\* SUPABASE_KEY: osm_scraper also reads SUPABASE_SERVICE_ROLE_KEY, first.
ConfiguredKey(prog, environ) ==
    IF prog = "osm_scraper"
    THEN Or(environ["SUPABASE_SERVICE_ROLE_KEY"],
            Or(environ["SUPABASE_SERVICE_KEY"], environ["VITE_SUPABASE_ANON_KEY"]))
    ELSE Or(environ["SUPABASE_SERVICE_KEY"], environ["VITE_SUPABASE_ANON_KEY"])

\* A client check that looks at the URL only.
UrlMissing(url, key) == ~StrTruthy(url)

\* not SUPABASE_URL or not SUPABASE_KEY
CredentialsMissing(url, key) == ~StrTruthy(url) \/ ~StrTruthy(key)

\* No script runs.
MainIdle ==
    /\ program = "none"
    /\ SUPABASE_URL = Unset
    /\ SUPABASE_KEY = Unset
    /\ client = FALSE
    /\ exit_code = PyNone
    /\ gdf = <<>>
    /\ all_pois = <<>>

\* client = get_supabase_client(), the first thing each main does that is
\* not a print: sys.exit(1) when a credential is missing.
get_supabase_client ==
    /\ program \in Programs /\ pc = "idle" /\ ~client
    /\ IF CredentialsMissing(SUPABASE_URL, SUPABASE_KEY)
       THEN /\ pc' = "exited"
            /\ exit_code' = PyInt(1)
            /\ UNCHANGED client
       ELSE /\ client' = TRUE
            /\ UNCHANGED <<pc, exit_code>>
    /\ UNCHANGED <<sinkRest, fn, classVars, normVars, estimates, scrapeVars,
                   program, SUPABASE_URL, SUPABASE_KEY, gdf, all_pois>>

(***************************************************************************)
(* osm_scraper.fetch_all_pois and main                                     *)
(***************************************************************************)
\* The index of the frame: (element_type, osmid).
FeatureIndex == {<<"node", 0>>, <<"node", 7>>, <<"way", 7>>}

\* The tags of the features fetched: kept ones, a blacklisted one, and one
\* whose first column is NaN.
FeatureTags ==
    { [shop |-> Str("bakery")],
      [amenity |-> Str("cafe")],
      [amenity |-> Str("bench")],
      [shop |-> NaN, tourism |-> Str("hotel")] }

FeatureRows == [idx : FeatureIndex, tags : FeatureTags]

\* The frames ox.features_from_bbox returns: rows with distinct index.
FeatureFrames ==
    {f \in SeqsUpTo(FeatureRows, MaxRows) :
        \A j, k \in 1..Len(f) : j # k => f[j].idx # f[k].idx}

\* The dict appended for a row that is kept; osm_id is idx[1], and
\* int(osm_id) if osm_id else None.
PoiOf(r) ==
    LET c == determine_type(r.tags)
        osm_id == r.idx[2]
    IN  [osm_id |-> IF osm_id # 0 THEN PyInt(osm_id) ELSE PyNone,
         type |-> c.type, subtype |-> c.subtype]

\* The loop of fetch_all_pois over the rows: a row determine_type gives
\* (None, None) for is skipped.
RECURSIVE fetch_all_pois(_)
fetch_all_pois(frame) ==
    IF frame = <<>> THEN <<>>
    ELSE IF determine_type(Head(frame).tags).none
         THEN fetch_all_pois(Tail(frame))
         ELSE <<PoiOf(Head(frame))>> \o fetch_all_pois(Tail(frame))

\* all_pois = fetch_all_pois(): the fetch returns a frame, or raises and the
\* function returns [].
main_fetch_all_pois ==
    /\ program = "osm_scraper" /\ client /\ pc = "idle"
    /\ \/ \E frame \in FeatureFrames :
             /\ gdf' = frame
             /\ all_pois' = fetch_all_pois(frame)
       \/ /\ gdf' = <<>>
          /\ all_pois' = <<>>
    /\ pc' = "fetched"
    /\ UNCHANGED <<sinkRest, fn, classVars, normVars, estimates, scrapeVars,
                   program, SUPABASE_URL, SUPABASE_KEY, client, exit_code>>

\* if all_pois: insert_pois_to_supabase(client, all_pois)
main_insert_pois ==
    /\ program = "osm_scraper" /\ pc = "fetched"
    /\ IF all_pois # <<>>
       THEN insert_pois_to_supabase_begin(all_pois, SourceBatchSize)
       ELSE /\ pc' = "done"
            /\ UNCHANGED <<sinkRest, besideSink>>

\* The script is run again: a new process with the same environment.
main_again ==
    /\ program = "osm_scraper"
    /\ main_exit

(***************************************************************************)
(* popular_times_scraper.main and gla_footfall_parser.main after the       *)
(* client has been obtained                                                *)
(***************************************************************************)
main_scrape_all_places ==
    /\ program = "popular_times_scraper" /\ client
    /\ scrape_all_places_begin

main_generate_sample_data ==
    /\ program = "gla_footfall_parser" /\ client
    /\ generate_sample_data_insert

\* gla_footfall_parser.main with a path in sys.argv that does not exist, or
\* that read_csv cannot read: sys.exit(1).
main_csv_exit ==
    /\ program = "gla_footfall_parser" /\ client /\ pc = "idle"
    /\ pc' = "exited"
    /\ exit_code' = PyInt(1)
    /\ UNCHANGED <<sinkRest, fn, classVars, normVars, estimates, scrapeVars,
                   program, SUPABASE_URL, SUPABASE_KEY, client, gdf, all_pois>>

\* main returns after print("Done!") and the process ends with status 0.
main_return ==
    /\ program \in Programs /\ pc = "done"
    /\ pc' = "exited"
    /\ exit_code' = PyInt(0)
    /\ UNCHANGED <<sinkRest, fn, classVars, normVars, estimates, scrapeVars,
                   program, SUPABASE_URL, SUPABASE_KEY, client, gdf, all_pois>>

(***************************************************************************)
(* Specifications.                                                         *)
(***************************************************************************)
ScrapeIdle ==
    /\ targets = <<>>
    /\ all_records = <<>>

AllIdle == SinkIdle /\ PureIdle /\ ScrapeIdle /\ MainIdle

\* The sinks called with any short argument.
call_insert_pois_to_supabase ==
    /\ pc = "idle"
    /\ \E pois \in SeqsUpTo(PoiRecords, MaxRecords) :
          insert_pois_to_supabase_begin(pois, ScaledBatchSize)

call_insert_records ==
    /\ pc = "idle"
    /\ \E recs \in SeqsUpTo(FootfallRecords, MaxRecords) :
          insert_records_begin(recs, ScaledBatchSize)

call_insert_footfall_data ==
    /\ pc = "idle"
    /\ \E recs \in SeqsUpTo(FootfallRecords, MaxRecords) :
          insert_footfall_data_begin(recs, ScaledBatchSize)

SinkInit == AllIdle

SinkNext ==
    \/ call_insert_pois_to_supabase
    \/ insert_pois_to_supabase_batch
    \/ insert_pois_to_supabase_report
    \/ call_insert_records
    \/ insert_records_batch
    \/ insert_records_report
    \/ call_insert_footfall_data
    \/ insert_footfall_data_batch
    \/ insert_footfall_data_report
    \/ main_exit

SinkSpec == SinkInit /\ [][SinkNext]_vars

ClassInit == AllIdle

ClassNext ==
    \/ determine_type_call
    \/ determine_type_return

ClassSpec == ClassInit /\ [][ClassNext]_vars

NormInit == AllIdle

NormNext ==
    \/ normalize_to_100_call
    \/ normalize_to_100_return

NormSpec == NormInit /\ [][NormNext]_vars

EstInit == AllIdle

EstNext ==
    \/ generate_estimated_popular_times_call
    \/ generate_estimated_popular_times_return

EstSpec == EstInit /\ [][EstNext]_vars

ScrapeInit == AllIdle

ScrapeNext ==
    \/ scrape_all_places_begin
    \/ scrape_all_places_place
    \/ scrape_all_places_insert
    \/ insert_records_batch
    \/ insert_records_report
    \/ generate_sample_data_insert
    \/ insert_footfall_data_batch
    \/ insert_footfall_data_report

ScrapeSpec == ScrapeInit /\ [][ScrapeNext]_vars


\* A script is started in some environment: the module-level assignments
\* have run and main is about to.
MainInit ==
    /\ SinkIdle /\ PureIdle /\ ScrapeIdle
    /\ client = FALSE
    /\ exit_code = PyNone
    /\ gdf = <<>>
    /\ all_pois = <<>>
    /\ \E prog \in Programs, environ \in Environments :
          /\ program = prog
          /\ SUPABASE_URL = ConfiguredUrl(environ)
          /\ SUPABASE_KEY = ConfiguredKey(prog, environ)

MainNext ==
    \/ get_supabase_client
    \/ main_fetch_all_pois
    \/ main_insert_pois
    \/ insert_pois_to_supabase_batch
    \/ insert_pois_to_supabase_report
    \/ main_scrape_all_places
    \/ scrape_all_places_place
    \/ scrape_all_places_insert
    \/ insert_records_batch
    \/ insert_records_report
    \/ main_generate_sample_data
    \/ main_csv_exit
    \/ insert_footfall_data_batch
    \/ insert_footfall_data_report
    \/ main_return

MainSpec == MainInit /\ [][MainNext]_vars

\* osm_scraper run again and again against one store.
PoiInit == MainInit /\ program = "osm_scraper"

PoiNext ==
    \/ get_supabase_client
    \/ main_fetch_all_pois
    \/ main_insert_pois
    \/ insert_pois_to_supabase_batch
    \/ insert_pois_to_supabase_report
    \/ main_again

PoiSpec == PoiInit /\ [][PoiNext]_vars
(***************************************************************************)
(* What the claims speak of, read off the run's history.                   *)
(***************************************************************************)
\* The offsets at which the for loop slices its argument.
ChunkStarts == {s \in 0..(Len(records) - 1) : s % batch_size = 0}

\* What the running sink hands to the store for the slice at offset s.
Submitted(s) ==
    LET batch == Slice(records, s, s + batch_size)
    IN  IF sink = "poi" THEN SelectSeq(batch, LAMBDA p : Truthy(p.osm_id)) ELSE batch

CallsWhere(ok) == SelectSeq(calls, LAMBDA c : c.ok = ok)
BatchesOf(cs) == [k \in 1..Len(cs) |-> cs[k].batch]
StartsOf(cs) == [k \in 1..Len(cs) |-> cs[k].start]

\* The records of the current run the store accepted, in submission order.
Accepted == Flatten(BatchesOf(CallsWhere(TRUE)))

\* The offsets below `upto` whose slice has something to submit, ascending.
RECURSIVE StartsBelow(_, _)
StartsBelow(s, upto) ==
    IF s >= upto \/ s >= Len(records) THEN <<>>
    ELSE (IF Submitted(s) # <<>> THEN <<s>> ELSE <<>>) \o StartsBelow(s + batch_size, upto)

RowsUnder(k) == {x \in footfall_baseline : NaturalKey(x) = k}

\* C1: against a store that upserts on (location_name, day_of_week,
\* hour_of_day, source), after any sequence of accepted submissions by the
\* Footfall sinks the table holds exactly one row per natural key submitted,
\* carrying the score of the most recent accepted record with that key, and no
\* row under a key never submitted; rows that differ only in source coexist.
C1_UpsertKeepsLastScore ==
    \A k \in FootfallKeys :
        IF k \notin DOMAIN lastSubmitted
        THEN RowsUnder(k) = {}
        ELSE /\ Cardinality(RowsUnder(k)) = 1
             /\ \A x \in RowsUnder(k) : x.avg_footfall_score = lastSubmitted[k]

\* A Footfall run in which one key was accepted twice with different scores,
\* the later one being what the table holds, beside a row of the other source.
C1_Witness ==
    /\ pc = "done" /\ sink \in {"pt", "gla"}
    /\ \E p, q \in 1..Len(Accepted) :
          /\ p < q
          /\ NaturalKey(Accepted[p]) = NaturalKey(Accepted[q])
          /\ Accepted[p].avg_footfall_score # Accepted[q].avg_footfall_score
          /\ \A m \in (q + 1)..Len(Accepted) : NaturalKey(Accepted[m]) # NaturalKey(Accepted[q])
          /\ Accepted[q] \in footfall_baseline
    /\ \E x, y \in footfall_baseline :
          /\ x.source # y.source
          /\ [x EXCEPT !.source = y.source] = y

\* C2: partial-failure isolation.  When a run reports, whatever chunks the
\* store refused, every slice with something to submit was submitted, every
\* record of an accepted chunk has a row under its key, and the reported
\* inserted count is the number of records in the accepted chunks.
C2_PartialFailureIsolation ==
    (pc = "done" /\ reported # <<>>) =>
        /\ \A s \in ChunkStarts :
              Submitted(s) # <<>> =>
                  \E k \in 1..Len(calls) : calls[k].start = s /\ calls[k].batch = Submitted(s)
        /\ reported.inserted = SumLen(BatchesOf(CallsWhere(TRUE)))
        /\ \A k \in 1..Len(Accepted) :
              IF sink = "poi"
              THEN \E x \in business_nodes : x.osm_id = Accepted[k].osm_id
              ELSE RowsUnder(NaturalKey(Accepted[k])) # {}

\* Chunk 2 of 3 is refused, chunks 1 and 3 are accepted, and the count leaves
\* out chunk 2's records.
C2_Witness ==
    /\ pc = "done" /\ reported # <<>>
    /\ Len(calls) = 3
    /\ calls[1].ok /\ ~calls[2].ok /\ calls[3].ok
    /\ reported.inserted = Len(calls[1].batch) + Len(calls[3].batch)
    /\ reported.inserted < Len(records)

\* C3 as stated: every slice of the argument is submitted exactly once, in
\* order, whatever the store answers.
C3_EveryChunkSubmittedOnce ==
    pc = "done" =>
        /\ Len(calls) = Cardinality(ChunkStarts)
        /\ \A k \in 1..Len(calls) : calls[k].start = (k - 1) * batch_size

\* C3 as amended: at every point of a run the calls made are, in order and
\* once each, the slices below i that hold at least one record to submit (for
\* the Footfall sinks every slice; for the POI sink the slices with a
\* key-bearing record, a slice without one being skipped); a refused chunk is
\* never submitted again; every iteration moves i on by batch_size, and the
\* run reports as soon as i has passed the last slice.
C3_InOrderOnce ==
    pc \in {"loop", "done"} =>
        /\ StartsOf(calls) = StartsBelow(0, i)
        /\ \A k \in 1..Len(calls) : calls[k].batch = Submitted(calls[k].start)
        /\ i % batch_size = 0
        /\ i < Len(records) + batch_size
        /\ pc = "done" => i >= Len(records)

C3_Progress ==
    pc = "loop" =>
        \/ pc' = "loop" /\ i < Len(records) /\ i' = i + batch_size /\ Len(calls') <= Len(calls) + 1
        \/ pc' = "done" /\ i >= Len(records) /\ calls' = calls

\* C3 (amended): the calls of a run are always the in-order, once-each list of
\* the slices below i that have something to submit, and every step of the
\* loop either moves on to the next slice or, past the last one, reports.
C3_NoRetryAndTermination == []C3_InOrderOnce /\ [][C3_Progress]_vars

\* A POI run that skipped a slice without key-bearing records, was refused a
\* chunk and went on to submit a later one.
C3_Witness ==
    /\ pc = "done" /\ sink = "poi"
    /\ Len(calls) = 2 /\ Cardinality(ChunkStarts) = 3
    /\ ~calls[1].ok /\ calls[2].ok

\* C4: every sink reports a pair (inserted_count, error_count), the records of
\* the accepted and of the refused chunks, which add up to the records
\* submitted to the store.
C4_AggregatePair ==
    (pc = "done" /\ reported # <<>>) =>
        /\ DOMAIN reported = {"inserted", "errors"}
        /\ reported.inserted = SumLen(BatchesOf(CallsWhere(TRUE)))
        /\ reported.errors = SumLen(BatchesOf(CallsWhere(FALSE)))
        /\ reported.inserted + reported.errors = SumLen(BatchesOf(calls))

\* C5: no batch the POI sink hands to the store, and no row of business_nodes,
\* holds a record whose osm_id is None or 0.
C5_NoKeylessRecordSubmitted ==
    /\ sink = "poi" =>
          \A k \in 1..Len(calls) :
              \A n \in 1..Len(calls[k].batch) : Truthy(calls[k].batch[n].osm_id)
    /\ \A x \in business_nodes : Truthy(x.osm_id)

\* A POI run over records without osm_id, with osm_id 0 and with a key, one
\* chunk of which was accepted.
C5_Witness ==
    /\ pc = "done" /\ sink = "poi"
    /\ \E a, b, c \in 1..Len(records) :
          /\ records[a].osm_id = PyNone
          /\ records[b].osm_id = PyInt(0)
          /\ Truthy(records[c].osm_id)
          /\ (a - 1) \div batch_size = (c - 1) \div batch_size
    /\ \E k \in 1..Len(calls) : calls[k].ok
    /\ business_nodes # {}

(***************************************************************************)
(* The classifier's rule table, as the specification lists it.             *)
(***************************************************************************)
TagOrder == <<"shop", "office", "amenity", "tourism", "historic", "leisure", "craft">>

\* The tag is present: the row has it with a string value.
Present(key) == key \in DOMAIN row /\ row[key].str

\* The first tag of TagOrder that is present, or "none".
FirstTag ==
    LET hits == {n \in 1..Len(TagOrder) : Present(TagOrder[n])}
    IN  IF hits = {} THEN "none"
        ELSE TagOrder[CHOOSE n \in hits : \A m \in hits : n <= m]

RuleTable(key, v) ==
    CASE key = "shop"     -> Classified("retail", v)
      [] key = "office"   -> Classified("commercial", v)
      [] key = "amenity"  ->
            CASE v \in BLACKLIST -> Discard
              [] v \notin BLACKLIST /\ v \in HospitalityAmenities -> Classified("hospitality", v)
              [] v \notin BLACKLIST /\ v \notin HospitalityAmenities /\ v \in CommercialAmenities ->
                     Classified("commercial", v)
              [] OTHER -> Classified("other", "amenity:" \o v)
      [] key = "tourism"  ->
            IF v \in LodgingTourism THEN Classified("hospitality", v)
            ELSE Classified("other", "tourism:" \o v)
      [] key = "historic" -> Classified("other", "historic:" \o v)
      [] key = "leisure"  ->
            CASE v \in BLACKLIST -> Discard
              [] v \notin BLACKLIST /\ v \in FitnessLeisure -> Classified("commercial", v)
              [] OTHER -> Classified("other", "leisure:" \o v)
      [] key = "craft"    -> Classified("commercial", "craft:" \o v)

\* C6: for every tag bag, determine_type returns what the first matching rule
\* of shop > office > amenity > tourism > historic > leisure > craft > none
\* gives in the rule table; a bag with both shop and amenity is retail.
C6_FirstMatchWins ==
    fn = "determine_type" =>
        classified = IF FirstTag = "none" THEN Classified("other", "unknown")
                     ELSE RuleTable(FirstTag, row[FirstTag].s)

\* A bag with shop and amenity, neither blacklisted, classified retail with the
\* shop value.
C6_Witness ==
    /\ fn = "determine_type"
    /\ Present("shop") /\ Present("amenity")
    /\ row["amenity"].s \in HospitalityAmenities
    /\ classified = Classified("retail", row["shop"].s)

\* C7 as stated: a blacklisted value under any tag discards the feature,
\* whatever other tags are present.
C7_AnyBlacklistedValueDiscards ==
    fn = "determine_type" =>
        ((\E key \in TagKeys : Present(key) /\ row[key].s \in BLACKLIST) => classified.none)

\* C7 as amended: the feature is discarded exactly when the first present tag
\* in precedence order is amenity or leisure and its value is blacklisted,
\* whatever lower-precedence tags are present; a blacklisted value under
\* another tag, or behind a higher-precedence tag, does not discard.
C7_BlacklistOnFirstAmenityOrLeisure ==
    fn = "determine_type" =>
        (classified.none <=>
            /\ FirstTag \in {"amenity", "leisure"}
            /\ row[FirstTag].s \in BLACKLIST)

\* amenity=bench discarded although a lower-precedence tag with a value that
\* is not blacklisted is present.
C7_Witness ==
    /\ fn = "determine_type"
    /\ Present("amenity") /\ row["amenity"].s = "bench"
    /\ \E key \in {"tourism", "historic", "leisure", "craft"} :
          Present(key) /\ row[key].s \notin BLACKLIST
    /\ classified.none


(***************************************************************************)
(* C8: normalize_to_100                                                    *)
(***************************************************************************)
AllEqual(vals) == \A j, k \in 1..Len(vals) : vals[j] = vals[k]

\* C8: for a non-empty series of bounded integers normalize_to_100 returns a
\* series of the same length, every element an integer in 0..100; when the
\* inputs are not all equal every minimum maps to 0 and every maximum to 100,
\* and when they are all equal every element is exactly 50.
C8_NormalizedWithinBounds ==
    (fn = "normalize_to_100" /\ values # <<>>) =>
        /\ Len(normalized) = Len(values)
        /\ \A k \in 1..Len(normalized) : normalized[k] \in 0..100
        /\ AllEqual(values) => \A k \in 1..Len(normalized) : normalized[k] = 50
        /\ ~AllEqual(values) =>
              \A k \in 1..Len(values) :
                 /\ values[k] = SeriesMin(values) => normalized[k] = 0
                 /\ values[k] = SeriesMax(values) => normalized[k] = 100

\* A series that is not constant, with a negative minimum held twice and a
\* value strictly between the extremes, has been normalised.
C8_Witness ==
    /\ fn = "normalize_to_100"
    /\ Len(values) = 3 /\ ~AllEqual(values)
    /\ SeriesMin(values) < 0
    /\ \E j, k \in 1..Len(values) :
          j # k /\ values[j] = SeriesMin(values) /\ values[k] = SeriesMin(values)
    /\ \E k \in 1..Len(values) : normalized[k] = 100

(***************************************************************************)
(* C9: the footfall records in the store                                   *)
(***************************************************************************)
\* C9 as stated: every footfall record in the store, on every provenance
\* path, has a score in 0..100, an hour in 0..23 and one of the 7 day names.
C9_StoredRecordsWithinBounds ==
    \A x \in footfall_baseline :
        /\ x.avg_footfall_score \in 0..100
        /\ x.hour_of_day \in 0..23
        /\ x.day_of_week \in {DAYS[k] : k \in 1..Len(DAYS)}

(***************************************************************************)
(* C10: generate_estimated_popular_times                                   *)
(***************************************************************************)
\* What of a record does not carry the coordinate or the name.
Surface(out) ==
    [n \in 1..Len(out) |->
        <<out[n].day_of_week, out[n].hour_of_day,
          out[n].avg_footfall_score, out[n].raw_footfall_value>>]

Weekend == {"Saturday", "Sunday"}

\* x scaled by pct hundredths, truncated to an integer (x >= 0).
Scaled(x, pct) == (x * pct) \div 100

\* The piecewise base curve of the hour.
ReferenceBase(h) ==
    CASE h \in 0..5   -> 5 + h
      [] h \in 6..8   -> 20 + (h - 6) * 15
      [] h \in 9..11  -> 60 + (h - 9) * 10
      [] h \in 12..13 -> 85
      [] h \in 14..16 -> 75 - (h - 14) * 5
      [] h \in 17..19 -> 65 + (h - 17) * 5
      [] h \in 20..22 -> 60 - (h - 20) * 15
      [] OTHER        -> 15

\* The adjustments, each taking the value the one before it left.
AfterStation(x, station, day, h) ==
    IF ~station THEN x
    ELSE IF day \notin Weekend /\ h \in (7..9) \cup (17..19) THEN Min(100, x + 25)
    ELSE IF day \in Weekend THEN Scaled(x, 70)
    ELSE x

AfterShopping(x, shopping, day, h) ==
    IF shopping /\ day \in Weekend /\ h \in 10..18 THEN Min(100, x + 20) ELSE x

AfterLandmark(x, landmark, h) ==
    IF landmark /\ h \in 10..17 THEN Max(x, 50) ELSE x

AfterTransit(x, transit, day, h) ==
    IF transit /\ day \notin Weekend /\ h \in (8..9) \cup (17..18) THEN Min(100, x + 15) ELSE x

AfterWeekend(x, day) ==
    IF day = "Saturday" THEN Scaled(x, 110)
    ELSE IF day = "Sunday" THEN Scaled(x, 85)
    ELSE x

ReferenceScore(station, shopping, landmark, transit, day, h) ==
    LET s1 == AfterStation(ReferenceBase(h), station, day, h)
        s2 == AfterShopping(s1, shopping, day, h)
        s3 == AfterLandmark(s2, landmark, h)
        s4 == AfterTransit(s3, transit, day, h)
        s5 == AfterWeekend(s4, day)
    IN  Max(0, Min(100, s5))

\* The archetype flags of a name.
Archetype(name) ==
    LET lower == Lower(name)
        bridge == Contains(lower, "bridge")
    IN  [station  |-> Contains(lower, "station"),
         shopping |-> \E x \in {"circus", "square", "street", "garden"} : Contains(lower, x),
         landmark |-> bridge \/ \E x \in {"cathedral", "abbey", "eye", "ben"} : Contains(lower, x),
         transit  |-> bridge \/ Contains(lower, "station")]

\* C11: for every combination of archetype flags derivable from a name, every
\* day and every hour 0..23 the estimator's score equals the reference
\* computation (base curve, station, shopping, landmark, transit, weekend
\* scaling, in this order, truncating at each scaling and clamping to 0..100);
\* hour 13 on a non-weekend day with no archetype yields 85 and hour 8 on
\* Saturday for a station yields 38.
C11_ScoreEqualsReference ==
    \A e \in 1..Len(estimates) :
        LET a == Archetype(estimates[e].place_name)
            out == estimates[e].out
        IN  \A n \in 1..Len(out) :
               /\ out[n].avg_footfall_score =
                     ReferenceScore(a.station, a.shopping, a.landmark, a.transit,
                                    out[n].day_of_week, out[n].hour_of_day)
               /\ (/\ ~a.station /\ ~a.shopping /\ ~a.landmark /\ ~a.transit
                   /\ out[n].day_of_week \notin Weekend /\ out[n].hour_of_day = 13)
                     => out[n].avg_footfall_score = 85
               /\ (a.station /\ out[n].day_of_week = "Saturday" /\ out[n].hour_of_day = 8)
                     => out[n].avg_footfall_score = 38

\* The estimator was called for a name of every archetype at once and for a
\* name of none, and gave 38 and 85 at the two hours the claim names.
C11_Witness ==
    /\ Len(estimates) = 2
    /\ Archetype(estimates[1].place_name) =
          [station |-> TRUE, shopping |-> TRUE, landmark |-> TRUE, transit |-> TRUE]
    /\ Archetype(estimates[2].place_name) =
          [station |-> FALSE, shopping |-> FALSE, landmark |-> FALSE, transit |-> FALSE]
    /\ \E n \in 1..Len(estimates[1].out) :
          /\ estimates[1].out[n].day_of_week = "Saturday"
          /\ estimates[1].out[n].hour_of_day = 8
          /\ estimates[1].out[n].avg_footfall_score = 38
    /\ \E n \in 1..Len(estimates[2].out) :
          /\ estimates[2].out[n].day_of_week = "Wednesday"
          /\ estimates[2].out[n].hour_of_day = 13
          /\ estimates[2].out[n].avg_footfall_score = 85

(***************************************************************************)
(* C12: missing store credentials                                          *)
(***************************************************************************)
\* The script was started without a usable URL or without a usable key.
StartedWithoutCredentials ==
    /\ program \in Programs
    /\ \/ SUPABASE_URL.none \/ SUPABASE_URL.s = ""
       \/ SUPABASE_KEY.none \/ SUPABASE_KEY.s = ""

\* Nothing was fetched, generated or sent to the store.
NoDataTouched ==
    /\ ~client
    /\ gdf = <<>> /\ all_pois = <<>>
    /\ targets = <<>> /\ all_records = <<>>
    /\ sink = "none" /\ records = <<>>
    /\ calls = <<>>
    /\ business_nodes = {} /\ footfall_baseline = {}

\* In a run without credentials the process is either about to check them or
\* has exited with status 1, and no data was touched.
C12_Untouched ==
    StartedWithoutCredentials =>
        /\ NoDataTouched
        /\ \/ pc = "idle" /\ exit_code = PyNone
           \/ pc = "exited" /\ exit_code = PyInt(1)

\* The only step of a run without credentials is the failure exit.
C12_ExitsAtOnce ==
    StartedWithoutCredentials =>
        /\ pc = "idle" /\ pc' = "exited"
        /\ exit_code' = PyInt(1)

\* C12: in each of the three mains, when store credentials are missing the
\* run terminates with a failure exit before any source feature is fetched,
\* any record is generated or any store upsert is issued; no store call ever
\* occurs in a run whose credential check failed.
C12_NoProcessingWithoutCredentials ==
    []C12_Untouched /\ [][C12_ExitsAtOnce]_vars

\* popular_times_scraper, started with a URL and no usable key (unset or
\* empty), has exited with status 1 and touched nothing.
C12_Witness ==
    /\ program = "popular_times_scraper"
    /\ SUPABASE_URL = EnvStr("secret")
    /\ SUPABASE_KEY \in {Unset, EnvStr("")}
    /\ pc = "exited"
    /\ exit_code = PyInt(1)
    /\ NoDataTouched

(***************************************************************************)
(* C13: re-ingesting a feature                                             *)
(***************************************************************************)
\* The rows of business_nodes under the source id n.
NodesUnder(n) == {x \in business_nodes : x.osm_id = PyInt(n)}

\* A run of osm_scraper has ended, every batch it submitted was accepted,
\* and no two features of its frame share a source id.
CleanPoiRunEnded ==
    /\ program = "osm_scraper" /\ pc = "done"
    /\ \A k \in 1..Len(calls) : calls[k].ok
    /\ \A j, k \in 1..Len(gdf) : j # k => gdf[j].idx[2] # gdf[k].idx[2]

\* C13 as stated: after a sequence of runs that ingest the same feature with
\* possibly changed tags, all submissions succeeding, the store holds exactly
\* one record for its source id with the type/subtype of the most recent
\* run's classification; when the most recent run discards the feature no
\* record with an earlier classification is left.
C13_StoreReflectsLatestRun ==
    CleanPoiRunEnded =>
        \A k \in 1..Len(gdf) :
            LET c == determine_type(gdf[k].tags)
                rows == NodesUnder(gdf[k].idx[2])
            IN  gdf[k].idx[2] # 0 =>
                   IF c.none THEN rows = {}
                   ELSE /\ Cardinality(rows) = 1
                        /\ \A x \in rows : x.type = c.type /\ x.subtype = c.subtype

(***************************************************************************)
(* C14: filtering and partitioning in the POI sink                         *)
(***************************************************************************)
KeyBearing(s) == SelectSeq(s, LAMBDA p : ~p.osm_id.none /\ p.osm_id.v # 0)

\* The records at the 0-based positions s .. s + batch_size - 1 of the argument.
ChunkAt(s) ==
    SubSeq(records, s + 1,
           IF s + batch_size < Len(records) THEN s + batch_size ELSE Len(records))

\* The consecutive slices of batch_size records of a sequence.
SlicesOf(s) ==
    [k \in 1..((Len(s) + batch_size - 1) \div batch_size) |->
        SubSeq(s, (k - 1) * batch_size + 1,
               IF k * batch_size < Len(s) THEN k * batch_size ELSE Len(s))]

\* C14 as stated: the batches the POI sink submits are the consecutive
\* batch_size slices of the key-bearing records, so every batch but the last
\* holds exactly batch_size records.
C14_FilteredBeforePartition ==
    (sink = "poi" /\ pc = "done") =>
        /\ BatchesOf(calls) = SlicesOf(KeyBearing(records))
        /\ \A k \in 1..(Len(calls) - 1) : Len(calls[k].batch) = batch_size

\* C14 as amended: the POI sink partitions the whole sequence into consecutive
\* batch_size slices and removes the records without a source id from each
\* slice: every submitted batch is the key-bearing part of one slice, so it
\* holds between 1 and batch_size records and no keyless one, the slices are
\* taken in order, and at the end every slice with a key-bearing record has
\* been submitted.
C14_FilteredWithinSlices ==
    sink = "poi" =>
        /\ \A k \in 1..Len(calls) :
              /\ calls[k].start % batch_size = 0
              /\ calls[k].start < Len(records)
              /\ calls[k].batch = KeyBearing(ChunkAt(calls[k].start))
              /\ Len(calls[k].batch) \in 1..batch_size
        /\ \A j, k \in 1..Len(calls) : j < k => calls[j].start < calls[k].start
        /\ pc = "done" =>
              \A s \in 0..(Len(records) - 1) :
                 (s % batch_size = 0 /\ KeyBearing(ChunkAt(s)) # <<>>)
                    => \E k \in 1..Len(calls) : calls[k].start = s

\* A run has ended in which a batch that is not the last one holds fewer
\* than batch_size records, a keyless record having been removed from its
\* slice.
C14_Witness ==
    /\ sink = "poi" /\ pc = "done"
    /\ Len(calls) >= 2
    /\ Len(calls[1].batch) < batch_size
    /\ Len(ChunkAt(calls[1].start)) = batch_size
    /\ BatchesOf(calls) # SlicesOf(KeyBearing(records))

(***************************************************************************)
(* C15: the shape of an estimated surface                                  *)
(***************************************************************************)
\* C15: for any place name generate_estimated_popular_times returns exactly
\* 168 records, one for each (day_of_week, hour_of_day) pair of 7 days x
\* hours 0..23 and none repeated, each with an integer score in 0..100 and
\* raw_footfall_value = score * 100; no two records of one surface share the
\* natural key (location_name, day_of_week, hour_of_day, source).
C15_FullSurface ==
    \A e \in 1..Len(estimates) :
        LET out == estimates[e].out
            pairs == {<<out[n].day_of_week, out[n].hour_of_day>> : n \in 1..Len(out)}
            keys == {<<out[n].location_name, out[n].day_of_week,
                       out[n].hour_of_day, out[n].source>> : n \in 1..Len(out)}
        IN  /\ Len(out) = 168
            \* every pair occurs, and as many pairs as records: none repeated
            /\ pairs = {DAYS[k] : k \in 1..Len(DAYS)} \X (0..23)
            /\ Cardinality(pairs) = Len(out)
            /\ \A n \in 1..Len(out) :
                  /\ out[n].avg_footfall_score \in 0..100
                  /\ out[n].raw_footfall_value = out[n].avg_footfall_score * 100
                  /\ out[n].location_name = estimates[e].place_name
            \* as many natural keys as records: no two records share one
            /\ Cardinality(keys) = Len(out)

\* The estimator has returned a surface of 168 records on which the clamp at
\* 100 acts: a record with score 100 and raw value 10000, and one at hour 23
\* of Sunday.
C15_Witness ==
    /\ Len(estimates) >= 1
    /\ Len(estimates[1].out) = 168
    /\ \E n \in 1..Len(estimates[1].out) :
          /\ estimates[1].out[n].avg_footfall_score = 100
          /\ estimates[1].out[n].raw_footfall_value = 10000
    /\ \E n \in 1..Len(estimates[1].out) :
          /\ estimates[1].out[n].day_of_week = "Sunday"
          /\ estimates[1].out[n].hour_of_day = 23
====
